---------------------------- MODULE Spec2Model ----------------------------
(***************************************************************************)
(* Model of the detail / quality-selection surface of                      *)
(* src/src/pages/MovieDetail.tsx (component MovieDetail).                  *)
(*                                                                         *)
(* The component is a React function component: every handler is a closure *)
(* over the state of the render in which it was created.  A handler that   *)
(* suspends at an await resumes later with the values it captured, while   *)
(* its setState calls act on the current state.  Each action below is one  *)
(* synchronous segment of a handler: from its invocation (or from the      *)
(* answer to the request it awaits) up to its next await or its end.       *)
(***************************************************************************)
EXTENDS Integers, Sequences, FiniteSets, Bags, TLC

(***************************************************************************)
(* Bounds and input domains                                                *)
(***************************************************************************)
\* largest number of suspended fetchMovieData / play() continuations
MaxInFlight == 2
\* largest number of suspended handleRefreshLink invocations
MaxRefreshes == 2
\* longest quality list the remote service answers with
MaxQuals == 2
\* largest number of user gestures a handler acts on (navigation, menu pick,
\* refresh, dialog close) in one session
MaxGestures == 3

Ids == {1, 2}
FirstId == 1
NoId == 0
Labels == {"720p", "1080p"}
\* the versions of a signed link: "a" as first issued, "b" as renewed
Versions == {"a", "b"}

NoQuality == "null"
NoError == "null"
NoUrl == <<>>
\* the playable URL of a quality variant in one version of the record
Url(label, v) == <<label, v>>
NoMovie == [id |-> NoId, video_qualities |-> <<>>]

\* the service lists the variants of a title in this order
ServerOrder == <<"720p", "1080p">>

\* the label lists a record may carry: the variants still on offer, in
\* server-supplied order, the lower ones withdrawn first
LabelLists ==
  {SubSeq(ServerOrder, Len(ServerOrder) - n + 1, Len(ServerOrder)) :
      n \in 0..(IF MaxQuals < Len(ServerOrder) THEN MaxQuals
                ELSE Len(ServerOrder))}

\* the quality lists a record may carry, each in every version of its links
QualityLists ==
  {[i \in DOMAIN s |-> [quality |-> s[i], url |-> Url(s[i], v)]] :
      s \in LabelLists, v \in Versions}

\* the records getMovieById(id, _) may answer with
Catalogue(id) == {[id |-> id, video_qualities |-> s] : s \in QualityLists}

(***************************************************************************)
(* State                                                                   *)
(***************************************************************************)
VARIABLES
  movieId,          \* useParams().movieId
  movie,            \* useState<Movie | null>
  isLoading,        \* useState(true)
  error,            \* useState<string | null>
  selectedQuality,  \* useState<string | null>
  showPlayer,       \* useState(false)
  isRefreshing,     \* useState(false)
  playbackError,    \* useState(false)
  playerLive,       \* videoPlayerRef.current?.player is set
  playerSrc,        \* last source handed to the player
  fetches,          \* suspended fetchMovieData callers and pending play()
  refreshes,        \* suspended handleRefreshLink invocations
  gestures,         \* user gestures acted on so far
  lastEvent         \* the handler segment that ran last

\* the playback control surface (component MusicPlayer): its props, the
\* playback state it reads from the context, and what it renders and forwards
VARIABLES
  currentTrack,     \* props.currentTrack
  isPlaying,        \* props.isPlaying
  onNext,           \* props.onNext is supplied
  onPrevious,       \* props.onPrevious is supplied
  volume,           \* useMusicPlayerContext().volume
  currentTime,      \* useMusicPlayerContext().currentTime
  duration,         \* useMusicPlayerContext().duration
  gesture,          \* the control and layout of the last user gesture
  intents,          \* the callbacks that gesture invoked, with their argument
  rendered          \* the output of the last render

state == <<movie, isLoading, error, selectedQuality, showPlayer,
           isRefreshing, playbackError>>
detailVars == <<movieId, movie, isLoading, error, selectedQuality, showPlayer,
                isRefreshing, playbackError, playerLive, playerSrc, fetches,
                refreshes, gestures, lastEvent>>
controlVars == <<currentTrack, isPlaying, onNext, onPrevious, volume,
                 currentTime, duration, gesture, intents, rendered>>
vars == <<detailVars, controlVars>>

(***************************************************************************)
(* Pure helpers                                                            *)
(***************************************************************************)
RemoveAt(s, i) == SubSeq(s, 1, i - 1) \o SubSeq(s, i + 1, Len(s))

\* the suspended continuations form a multiset: they resume in any order
OneOf(r) == SetToBag({r})

ReplaceAt(s, i, e) == [s EXCEPT ![i] = e]

\* video_qualities.find(q => q.quality === quality): index of the first
\* match, 0 for undefined
\* a lookup that takes the first variant whatever its label
FindQuality_First(m, quality) == IF Len(m.video_qualities) > 0 THEN 1 ELSE 0

\* movie.video_qualities.find(q => q.quality === quality): its index, 0 when
\* there is none
FindQuality(m, quality) ==
  IF \E i \in DOMAIN m.video_qualities : m.video_qualities[i].quality = quality
  THEN CHOOSE i \in DOMAIN m.video_qualities :
         /\ m.video_qualities[i].quality = quality
         /\ \A j \in DOMAIN m.video_qualities :
              m.video_qualities[j].quality = quality => i <= j
  ELSE 0

\* data.video_qualities[0]?.quality || 'Default'
FirstQuality(data) ==
  IF Len(data.video_qualities) > 0 THEN data.video_qualities[1].quality
  ELSE "Default"

\* the render guards: neither the skeleton nor the not-found view
Ready(ld, er, mv) == ~ld /\ er = NoError /\ mv # NoMovie

\* the VideoPlayer (and with it the player handle) exists only inside the
\* open dialog of the Ready view
Rendered(pl, ld, er, mv, sp) == pl /\ Ready(ld, er, mv) /\ sp

\* the player after the render that follows a segment which handed it src:
\* it is disposed, and its source with it, when the dialog is not rendered
PlayerAfter(src) ==
  /\ playerLive' = Rendered(playerLive, isLoading', error', movie', showPlayer')
  /\ playerSrc' = IF playerLive' THEN src ELSE NoUrl

getSelectedQualityUrl ==
  IF movie = NoMovie \/ selectedQuality = NoQuality THEN NoUrl
  ELSE IF FindQuality(movie, selectedQuality) = 0 THEN NoUrl
  ELSE movie.video_qualities[FindQuality(movie, selectedQuality)].url

\* a handleVideoError that does not look at isRefreshing
VideoErrorAccepted_WhileRefreshing(hasMovie, sel, refreshing) ==
  hasMovie /\ sel # NoQuality

\* handleVideoError's guard, over the values its closure holds
VideoErrorAccepted(hasMovie, sel, refreshing) ==
  ~(~hasMovie \/ sel = NoQuality \/ refreshing)

\* handleRefreshLink's guard, over the values its closure holds
RefreshAccepted(mv, sel, refreshing) ==
  ~(mv = NoMovie \/ sel = NoQuality \/ refreshing)

(***************************************************************************)
(* Init: the component has mounted and the effect has issued the first     *)
(* fetch.                                                                  *)
(***************************************************************************)
\* a suspended continuation with what its closure holds: the identifier and
\* force flag of its getMovieById call, the selectedQuality and isRefreshing
\* of its render, the label it was invoked with and the url of qualityData
FetchReq(kind, id, force, sel, quality, url, refreshing) ==
  [kind |-> kind, id |-> id, force |-> force, sel |-> sel,
   quality |-> quality, url |-> url, refreshing |-> refreshing]

(***************************************************************************)
(* The playback control surface: JavaScript numbers                        *)
(***************************************************************************)
MaxSeconds == 600     \* whole seconds the elapsed time ranges over
MaxVolume == 100      \* max={100} of the volume slider
MaxSeek == 3          \* slider positions tried on an unbounded seek range

\* a JavaScript value of a number-typed slot: a finite whole number, NaN,
\* positive infinity, or undefined
Num(n) == [kind |-> "number", n |-> n]
NaN == [kind |-> "NaN", n |-> 0]
Infinity == [kind |-> "Infinity", n |-> 0]
Undefined == [kind |-> "undefined", n |-> 0]

\* !x
Falsy(x) == x.kind \in {"NaN", "undefined"} \/ (x.kind = "number" /\ x.n = 0)
\* isNaN(x): undefined converts to NaN
IsNaN(x) == x.kind \in {"NaN", "undefined"}
\* x > 0: every comparison with NaN is false
GreaterThanZero(x) == x.kind = "Infinity" \/ (x.kind = "number" /\ x.n > 0)
\* x < 10
LessThanTen(x) == x.kind = "number" /\ x.n < 10
\* Math.floor(x / 60) on a value that is neither NaN nor undefined
FloorDiv60(x) == IF x.kind = "number" THEN Num(x.n \div 60) ELSE Infinity
\* Math.floor(x % 60): the remainder of infinity is NaN
FloorMod60(x) == IF x.kind = "number" THEN Num(x.n % 60) ELSE NaN
\* `${x}` in a template literal
TemplateString(x) ==
  CASE x.kind = "number" -> ToString(x.n)
    [] x.kind = "NaN" -> "NaN"
    [] x.kind = "Infinity" -> "Infinity"
    [] x.kind = "undefined" -> "undefined"

formatTime(seconds) ==
  IF Falsy(seconds) \/ IsNaN(seconds)
  THEN "0:00"
  ELSE LET mins == FloorDiv60(seconds)
           secs == FloorMod60(seconds)
       IN  TemplateString(mins) \o ":" \o
           (IF LessThanTen(secs) THEN "0" ELSE "") \o TemplateString(secs)

(***************************************************************************)
(* The playback control surface: what a render computes                    *)
(***************************************************************************)
\* props.currentTrack: absent, or a Track with its audioUrl and duration
NoTrack == [present |-> FALSE, audioUrl |-> "", duration |-> Undefined]
Track(audioUrl, seconds) ==
  [present |-> TRUE, audioUrl |-> audioUrl, duration |-> seconds]
Tracks ==
  {NoTrack} \cup
  {Track(u, d) : u \in {"", "song.mp3"}, d \in {Num(0), Num(MaxSeek - 1)}}
\* the values the context's duration takes
Durations == {Num(0), Num(MaxSeek), NaN, Infinity}
\* the values the context's currentTime takes
Times == {Num(n) : n \in 0..MaxSeconds} \cup {NaN, Infinity, Undefined}

Layouts == {"mobile", "desktop"}
Buttons == {"playPause", "skipBackward", "skipForward", "previous", "next"}

\* currentTrack?.audioUrl is truthy
HasAudioUrl(track) == track.present /\ track.audioUrl # ""

VolumeIcon_FullAbove(v) ==
  IF v = 0 THEN "VolumeX" ELSE IF v <= 50 THEN "Volume1" ELSE "Volume2"
VolumeIcon(v) ==
  IF v = 0 THEN "VolumeX" ELSE IF v < 50 THEN "Volume1" ELSE "Volume2"

effectiveDuration_NoFallback(dur, track) ==
  IF GreaterThanZero(dur) THEN dur ELSE Num(0)
effectiveDuration(dur, track) ==
  IF GreaterThanZero(dur)
  THEN dur
  ELSE IF track.present /\ ~Falsy(track.duration) THEN track.duration ELSE Num(0)

\* the disabled attribute of each button of each layout
ButtonDisabled_DesktopPlayAlways(layout, button, track, next, previous) ==
  CASE button = "playPause" -> layout = "mobile" /\ ~HasAudioUrl(track)
    [] button \in {"skipBackward", "skipForward"} -> ~HasAudioUrl(track)
    [] button = "previous" -> ~previous
    [] button = "next" -> ~next
ButtonDisabled(layout, button, track, next, previous) ==
  CASE layout = "mobile" /\ button = "playPause" -> ~HasAudioUrl(track)
    [] layout = "mobile" /\ button = "previous" -> ~previous
    [] layout = "mobile" /\ button = "skipBackward" -> ~HasAudioUrl(track)
    [] layout = "mobile" /\ button = "skipForward" -> ~HasAudioUrl(track)
    [] layout = "mobile" /\ button = "next" -> ~next
    [] layout = "desktop" /\ button = "previous" -> ~previous
    [] layout = "desktop" /\ button = "skipBackward" -> ~HasAudioUrl(track)
    [] layout = "desktop" /\ button = "playPause" -> ~HasAudioUrl(track)
    [] layout = "desktop" /\ button = "skipForward" -> ~HasAudioUrl(track)
    [] layout = "desktop" /\ button = "next" -> ~next

\* the callback bound to onClick of each button
ButtonHandler(button) ==
  CASE button = "playPause" -> "onPlayPause"
    [] button = "skipBackward" -> "skipBackward"
    [] button = "skipForward" -> "skipForward"
    [] button = "previous" -> "onPrevious"
    [] button = "next" -> "onNext"

\* one render of the component, both layouts
Render(track, playing, next, previous, vol, time, dur) ==
  [elapsed |-> formatTime(time),
   total |-> formatTime(effectiveDuration(dur, track)),
   glyph |-> VolumeIcon(vol),
   playIcon |-> IF playing THEN "Pause" ELSE "Play",
   seekMax |-> effectiveDuration(dur, track),
   seekDisabled |-> (effectiveDuration(dur, track) = Num(0)),
   disabled |-> [l \in Layouts |->
                   [b \in Buttons |-> ButtonDisabled(l, b, track, next, previous)]]]

\* an invoked callback with its argument
Intent(name, arg) == [name |-> name, arg |-> arg]
NoGesture == [kind |-> "none", layout |-> "none", control |-> "none", pos |-> 0]
Gesture(kind, layout, control, pos) ==
  [kind |-> kind, layout |-> layout, control |-> control, pos |-> pos]

\* the surface before any track is chosen
ControlInit ==
  /\ currentTrack = NoTrack
  /\ isPlaying = FALSE
  /\ onNext = FALSE
  /\ onPrevious = FALSE
  /\ volume = MaxVolume
  /\ currentTime = Num(0)
  /\ duration = Num(0)
  /\ gesture = NoGesture
  /\ intents = <<>>
  /\ rendered = Render(currentTrack, isPlaying, onNext, onPrevious, volume,
                       currentTime, duration)

Init ==
  /\ movieId = FirstId
  /\ gestures = 0
  /\ movie = NoMovie
  /\ isLoading = TRUE
  /\ error = NoError
  /\ selectedQuality = NoQuality
  /\ showPlayer = FALSE
  /\ isRefreshing = FALSE
  /\ playbackError = FALSE
  /\ playerLive = FALSE
  /\ playerSrc = NoUrl
  /\ fetches = OneOf(FetchReq("load", movieId, FALSE, NoQuality, NoQuality, NoUrl,
                              FALSE))
  /\ refreshes = <<>>
  /\ lastEvent = "mount"
  /\ ControlInit

(***************************************************************************)
(* fetchMovieData                                                          *)
(***************************************************************************)
\* the outcomes of one getMovieById call
Outcomes == {"data", "null", "throw"}

\* the records an outcome carries
Answers(id, out) == IF out = "data" THEN Catalogue(id) ELSE {NoMovie}

\* setMovie(data) on a record, nothing otherwise
FetchedMovie(out, data) == IF out = "data" THEN data ELSE movie

\* a fetchMovieData that sets the default quality on every load
FetchedQuality_Always(out, data, capSel) ==
  IF out = "data" THEN FirstQuality(data) ELSE selectedQuality

\* if (!selectedQuality) setSelectedQuality(firstQuality), with the
\* selectedQuality of the render that started the fetch
FetchedQuality(out, data, capSel) ==
  IF out = "data" /\ capSel = NoQuality THEN FirstQuality(data)
  ELSE selectedQuality

FetchedError(out) ==
  CASE out = "data" -> error
    [] out = "null" -> "Movie not found"
    [] out = "throw" -> "Failed to load movie details"

\* the segment of fetchMovieData after getMovieById has answered
fetchMovieDataResume(req, out, data) ==
  /\ movie' = FetchedMovie(out, data)
  /\ selectedQuality' = FetchedQuality(out, data, req.sel)
  /\ error' = FetchedError(out)
  /\ isLoading' = FALSE

\* useEffect(() => { fetchMovieData() }, [movieId]) after a change of the
\* route parameter
ChangeId(newId) ==
  /\ gestures < MaxGestures
  /\ gestures' = gestures + 1
  /\ newId # movieId
  /\ movieId' = newId
  /\ IF newId = NoId
     THEN /\ error' = "Invalid movie ID"
          /\ isLoading' = FALSE
          /\ fetches' = fetches
          /\ lastEvent' = "changeIdInvalid"
     ELSE /\ BagCardinality(fetches) < MaxInFlight
          /\ fetches' = fetches (+) OneOf(
               FetchReq("load", newId, FALSE, selectedQuality, NoQuality, NoUrl,
                        FALSE))
          /\ UNCHANGED <<error, isLoading>>
          /\ lastEvent' = "changeId"
  /\ UNCHANGED <<movie, selectedQuality, showPlayer, isRefreshing,
                 playbackError, refreshes>>
  /\ PlayerAfter(playerSrc)

\* the answer to the fetch of the effect
LoadReturn(r, out, data) ==
  /\ gestures' = gestures
  /\ r.kind = "load"
  /\ fetchMovieDataResume(r, out, data)
  /\ fetches' = fetches (-) OneOf(r)
  /\ lastEvent' = CASE out = "data" -> "loadOk"
                    [] out = "null" -> "loadNull"
                    [] out = "throw" -> "loadThrow"
  /\ UNCHANGED <<movieId, showPlayer, isRefreshing, playbackError, refreshes>>
  /\ PlayerAfter(playerSrc)

(***************************************************************************)
(* handleQualitySelect                                                     *)
(***************************************************************************)
\* the part of handleQualitySelect before its await, for a label the record
\* of this render holds at index k
QualitySelectStart(quality, k) ==
  /\ selectedQuality' = quality
  /\ playbackError' = FALSE
  /\ IF movieId = NoId
     THEN \* fetchMovieData returns at once and the handler runs on
          /\ error' = "Invalid movie ID"
          /\ isLoading' = FALSE
          /\ showPlayer' = TRUE
          /\ fetches' = IF playerLive
                        THEN fetches (+) OneOf(
                               FetchReq("play", NoId, FALSE, selectedQuality,
                                        NoQuality, NoUrl, isRefreshing))
                        ELSE fetches
     ELSE /\ fetches' = fetches (+) OneOf(
               FetchReq("pick", movieId, TRUE, selectedQuality, quality,
                        movie.video_qualities[k].url, isRefreshing))
          /\ UNCHANGED <<error, isLoading, showPlayer>>
  /\ UNCHANGED <<movie, isRefreshing>>
  /\ PlayerAfter(IF movieId = NoId /\ playerLive
                 THEN movie.video_qualities[k].url ELSE playerSrc)

\* a handleQualitySelect that selects the label before it looks it up
QualitySelectAbsent_Selects(quality) ==
  /\ selectedQuality' = quality
  /\ UNCHANGED <<movie, isLoading, error, showPlayer, isRefreshing,
                 playbackError, playerLive, playerSrc, fetches>>

\* if (!qualityData) return
QualitySelectAbsent(quality) ==
  UNCHANGED <<state, playerLive, playerSrc, fetches>>

\* a click on an entry of the quality menu, which the Ready view renders
handleQualitySelect(quality) ==
  /\ Ready(isLoading, error, movie)
  /\ IF FindQuality(movie, quality) = 0
     THEN /\ QualitySelectAbsent(quality)
          /\ gestures' = gestures
          /\ lastEvent' = "pickAbsent"
     ELSE /\ BagCardinality(fetches) < MaxInFlight
          /\ gestures < MaxGestures
          /\ gestures' = gestures + 1
          /\ QualitySelectStart(quality, FindQuality(movie, quality))
          /\ lastEvent' = "pick"
  /\ UNCHANGED <<movieId, refreshes>>

\* the rest of handleQualitySelect once fetchMovieData(true) has returned
PickReturn(r, out, data) ==
  /\ gestures' = gestures
  /\ r.kind = "pick"
  /\ fetchMovieDataResume(r, out, data)
  /\ showPlayer' = TRUE
  /\ IF playerLive
     THEN /\ fetches' = (fetches (-) OneOf(r)) (+) OneOf(
               FetchReq("play", NoId, FALSE, r.sel, NoQuality, NoUrl,
                        r.refreshing))
          /\ lastEvent' = "pickLoaded"
     ELSE /\ fetches' = fetches (-) OneOf(r)
          /\ lastEvent' = "pickOpened"
  /\ UNCHANGED <<movieId, isRefreshing, playbackError, refreshes>>
  /\ PlayerAfter(IF playerLive THEN r.url ELSE playerSrc)

\* player.play() of handleQualitySelect resolves
PickPlayResolve(r) ==
  /\ gestures' = gestures
  /\ r.kind = "play"
  /\ fetches' = fetches (-) OneOf(r)
  /\ lastEvent' = "pickPlayOk"
  /\ UNCHANGED <<movieId, state, playerLive, playerSrc, refreshes>>

\* player.play() of handleQualitySelect rejects: the handleVideoError of the
\* render that started the pick runs (its movie held the picked label)
PickPlayReject(r) ==
  /\ gestures' = gestures
  /\ r.kind = "play"
  /\ fetches' = fetches (-) OneOf(r)
  /\ playbackError' =
       IF VideoErrorAccepted(TRUE, r.sel, r.refreshing)
       THEN TRUE ELSE playbackError
  /\ lastEvent' = "pickPlayRejected"
  /\ UNCHANGED <<movieId, movie, isLoading, error, selectedQuality,
                 showPlayer, isRefreshing, playerLive, playerSrc, refreshes>>

(***************************************************************************)
(* The player                                                              *)
(***************************************************************************)
\* the VideoPlayer of the open dialog has created its player
PlayerMount ==
  /\ gestures' = gestures
  /\ Ready(isLoading, error, movie)
  /\ showPlayer
  /\ ~playerLive
  /\ playerLive' = TRUE
  /\ playerSrc' = getSelectedQualityUrl
  /\ lastEvent' = "playerMounted"
  /\ UNCHANGED <<movieId, state, fetches, refreshes>>

\* onError={handleVideoError}: the player reports a playback failure
handleVideoError ==
  /\ gestures' = gestures
  /\ playerLive
  /\ IF VideoErrorAccepted(movie # NoMovie, selectedQuality, isRefreshing)
     THEN /\ playbackError' = TRUE
          /\ lastEvent' = "videoError"
     ELSE /\ playbackError' = playbackError
          /\ lastEvent' = "videoErrorIgnored"
  /\ UNCHANGED <<movieId, movie, isLoading, error, selectedQuality,
                 showPlayer, isRefreshing, playerLive, playerSrc, fetches,
                 refreshes>>

\* a close handler that also abandons what is in flight
handleClosePlayer_Cancels ==
  /\ gestures < MaxGestures
  /\ gestures' = gestures + 1
  /\ Ready(isLoading, error, movie)
  /\ showPlayer
  /\ showPlayer' = FALSE
  /\ lastEvent' = "closePlayer"
  /\ fetches' = EmptyBag
  /\ refreshes' = <<>>
  /\ isRefreshing' = FALSE
  /\ UNCHANGED <<movieId, movie, isLoading, error, selectedQuality,
                 playbackError>>
  /\ PlayerAfter(playerSrc)

\* onOpenChange={setShowPlayer}: the dialog is closed
handleClosePlayer ==
  /\ gestures < MaxGestures
  /\ gestures' = gestures + 1
  /\ Ready(isLoading, error, movie)
  /\ showPlayer
  /\ showPlayer' = FALSE
  /\ lastEvent' = "closePlayer"
  /\ UNCHANGED <<movieId, movie, isLoading, error, selectedQuality,
                 isRefreshing, playbackError, fetches, refreshes>>
  /\ PlayerAfter(playerSrc)

(***************************************************************************)
(* handleRefreshLink                                                       *)
(***************************************************************************)
RefreshReq(stage, id, sel, fresh) ==
  [stage |-> stage, id |-> id, sel |-> sel, fresh |-> fresh]

\* a handleRefreshLink that does not mark the refresh as started
RefreshStarted_Forgotten == isRefreshing

\* setIsRefreshing(true)
RefreshStarted == TRUE

\* a click on the refresh button, which the Ready view renders while
\* playbackError is set
handleRefreshLink ==
  /\ Ready(isLoading, error, movie)
  /\ playbackError
  /\ IF RefreshAccepted(movie, selectedQuality, isRefreshing)
     THEN /\ Len(refreshes) < MaxRefreshes
          /\ gestures < MaxGestures
          /\ gestures' = gestures + 1
          /\ isRefreshing' = RefreshStarted
          /\ playbackError' = FALSE
          /\ refreshes' = Append(refreshes,
               RefreshReq("post", movie.id, selectedQuality, NoMovie))
          /\ lastEvent' = "refreshStart"
     ELSE /\ UNCHANGED <<isRefreshing, playbackError, refreshes, gestures>>
          /\ lastEvent' = "refreshIgnored"
  /\ UNCHANGED <<movieId, movie, isLoading, error, selectedQuality,
                 showPlayer, playerLive, playerSrc, fetches>>

\* a handleRefreshLink without its finally block
RefreshFinally_Skipped == isRefreshing

\* finally { setIsRefreshing(false) }
RefreshFinally == FALSE

\* a handleRefreshLink that hands the player the url of the record it had
FreshUrl_Stale(freshMovie, k) == getSelectedQualityUrl

\* the source handed to the player: freshQualityData.url
FreshUrl(freshMovie, k) == freshMovie.video_qualities[k].url

\* the answers of the refresh endpoint: a failure (network error, non-2xx),
\* a body without new_url, a body with new_url
PostOutcomes == {"error", "noUrl", "newUrl"}

\* axios.post has answered
RefreshPostReturn(i, out) ==
  /\ gestures' = gestures
  /\ i \in DOMAIN refreshes
  /\ refreshes[i].stage = "post"
  /\ CASE out = "error" ->
            /\ playbackError' = TRUE
            /\ isRefreshing' = RefreshFinally
            /\ refreshes' = RemoveAt(refreshes, i)
            /\ lastEvent' = "refreshPostError"
       [] out = "noUrl" ->
            /\ playbackError' = playbackError
            /\ isRefreshing' = RefreshFinally
            /\ refreshes' = RemoveAt(refreshes, i)
            /\ lastEvent' = "refreshNoUrl"
       [] out = "newUrl" ->
            /\ UNCHANGED <<playbackError, isRefreshing>>
            /\ refreshes' = ReplaceAt(refreshes, i,
                 RefreshReq("fetch", refreshes[i].id, refreshes[i].sel,
                            NoMovie))
            /\ lastEvent' = "refreshRefetch"
  /\ UNCHANGED <<movieId, movie, isLoading, error, selectedQuality,
                 showPlayer, playerLive, playerSrc, fetches>>

\* getMovieById(movie.id, true) of handleRefreshLink has answered
RefreshFetchReturn(i, out, data) ==
  /\ gestures' = gestures
  /\ i \in DOMAIN refreshes
  /\ refreshes[i].stage = "fetch"
  /\ UNCHANGED <<isLoading, error, showPlayer>>
  /\ IF out = "throw"
     THEN /\ playbackError' = TRUE
          /\ isRefreshing' = RefreshFinally
          /\ refreshes' = RemoveAt(refreshes, i)
          /\ lastEvent' = "refreshFetchThrow"
          /\ movie' = movie
          /\ PlayerAfter(playerSrc)
     ELSE LET freshMovie == IF out = "data" THEN data ELSE NoMovie
              k == FindQuality(freshMovie, refreshes[i].sel)
          IN /\ movie' = freshMovie
             /\ playbackError' = FALSE
             /\ IF k # 0 /\ playerLive
                THEN /\ PlayerAfter(FreshUrl(freshMovie, k))
                     /\ isRefreshing' = isRefreshing
                     /\ refreshes' = ReplaceAt(refreshes, i,
                          RefreshReq("play", refreshes[i].id, refreshes[i].sel,
                                     freshMovie))
                     /\ lastEvent' = "refreshPlaying"
                ELSE /\ PlayerAfter(playerSrc)
                     /\ isRefreshing' = RefreshFinally
                     /\ refreshes' = RemoveAt(refreshes, i)
                     /\ lastEvent' = CASE out = "null" -> "refreshFetchNull"
                                       [] k = 0 -> "refreshQualityMissing"
                                       [] OTHER -> "refreshNoPlayer"
  /\ UNCHANGED <<movieId, selectedQuality, fetches>>

\* player.play().catch(console.error) of handleRefreshLink has settled
RefreshPlayReturn(i) ==
  /\ gestures' = gestures
  /\ i \in DOMAIN refreshes
  /\ refreshes[i].stage = "play"
  /\ isRefreshing' = RefreshFinally
  /\ refreshes' = RemoveAt(refreshes, i)
  /\ lastEvent' = "refreshPlayDone"
  /\ UNCHANGED <<movieId, movie, isLoading, error, selectedQuality,
                 showPlayer, playbackError, playerLive, playerSrc, fetches>>

(***************************************************************************)
(* The playback control surface: props, context updates and gestures       *)
(***************************************************************************)
\* the render that follows every change of props or context
Rerender ==
  rendered' = Render(currentTrack', isPlaying', onNext', onPrevious', volume',
                     currentTime', duration')

\* the context reports a new currentTime
TimeUpdate(t) ==
  /\ t # currentTime
  /\ currentTime' = t
  /\ gesture' = NoGesture
  /\ intents' = <<>>
  /\ UNCHANGED <<currentTrack, isPlaying, onNext, onPrevious, volume, duration>>
  /\ Rerender

\* the context reports a new duration
DurationUpdate(d) ==
  /\ d # duration
  /\ duration' = d
  /\ gesture' = NoGesture
  /\ intents' = <<>>
  /\ UNCHANGED <<currentTrack, isPlaying, onNext, onPrevious, volume, currentTime>>
  /\ Rerender

\* the context reports a new volume
VolumeUpdate(v) ==
  /\ v # volume
  /\ volume' = v
  /\ gesture' = NoGesture
  /\ intents' = <<>>
  /\ UNCHANGED <<currentTrack, isPlaying, onNext, onPrevious, currentTime, duration>>
  /\ Rerender

\* the parent passes new props
PropsChange(track, playing, next, previous) ==
  /\ <<track, playing, next, previous>> #
       <<currentTrack, isPlaying, onNext, onPrevious>>
  /\ currentTrack' = track
  /\ isPlaying' = playing
  /\ onNext' = next
  /\ onPrevious' = previous
  /\ gesture' = NoGesture
  /\ intents' = <<>>
  /\ UNCHANGED <<volume, currentTime, duration>>
  /\ Rerender

\* a click on a button: a disabled button dispatches no onClick
Click(layout, button) ==
  /\ gesture' = Gesture("click", layout, button, 0)
  /\ intents' = IF rendered.disabled[layout][button]
                THEN <<>>
                ELSE <<Intent(ButtonHandler(button), Undefined)>>
  /\ UNCHANGED <<currentTrack, isPlaying, onNext, onPrevious, volume,
                 currentTime, duration>>
  /\ Rerender

\* the positions of a slider from 0 to max
SliderPositions(max) == IF max.kind = "number" THEN 0..max.n ELSE 0..MaxSeek

\* a move of the seek slider: a disabled slider dispatches no onValueChange
SlideSeek(layout, p) ==
  /\ p \in SliderPositions(rendered.seekMax)
  /\ gesture' = Gesture("seek", layout, "seek", p)
  /\ intents' = IF rendered.seekDisabled
                THEN <<>>
                ELSE <<Intent("handleSeek", Num(p))>>
  /\ UNCHANGED <<currentTrack, isPlaying, onNext, onPrevious, volume,
                 currentTime, duration>>
  /\ Rerender

\* a move of the volume slider
SlideVolume(layout, v) ==
  /\ gesture' = Gesture("volume", layout, "volume", v)
  /\ intents' = <<Intent("setVolume", Num(v))>>
  /\ UNCHANGED <<currentTrack, isPlaying, onNext, onPrevious, volume,
                 currentTime, duration>>
  /\ Rerender

(***************************************************************************)
(* Specification                                                           *)
(***************************************************************************)
RefreshProgress ==
  \/ /\ \E i \in DOMAIN refreshes, out \in PostOutcomes : RefreshPostReturn(i, out)
     /\ UNCHANGED controlVars
  \/ /\ \E i \in DOMAIN refreshes, out \in Outcomes :
          \E data \in Answers(refreshes[i].id, out) : RefreshFetchReturn(i, out, data)
     /\ UNCHANGED controlVars
  \/ /\ \E i \in DOMAIN refreshes : RefreshPlayReturn(i)
     /\ UNCHANGED controlVars

Next ==
  \/ /\ \E newId \in Ids \cup {NoId} : ChangeId(newId)
     /\ UNCHANGED controlVars
  \/ /\ \E r \in BagToSet(fetches), out \in Outcomes :
          \E data \in Answers(r.id, out) : LoadReturn(r, out, data)
     /\ UNCHANGED controlVars
  \/ /\ \E quality \in Labels : handleQualitySelect(quality)
     /\ UNCHANGED controlVars
  \/ /\ \E r \in BagToSet(fetches), out \in Outcomes :
          \E data \in Answers(r.id, out) : PickReturn(r, out, data)
     /\ UNCHANGED controlVars
  \/ /\ \E r \in BagToSet(fetches) : PickPlayResolve(r)
     /\ UNCHANGED controlVars
  \/ /\ \E r \in BagToSet(fetches) : PickPlayReject(r)
     /\ UNCHANGED controlVars
  \/ PlayerMount /\ UNCHANGED controlVars
  \/ handleVideoError /\ UNCHANGED controlVars
  \/ handleClosePlayer /\ UNCHANGED controlVars
  \/ handleRefreshLink /\ UNCHANGED controlVars
  \/ RefreshProgress

Spec == Init /\ [][Next]_vars

\* every awaited request of a refresh eventually answers
FairSpec == Spec /\ WF_vars(RefreshProgress)

\* the elapsed-time label under every currentTime
TimeNext ==
  /\ \E t \in Times : TimeUpdate(t)
  /\ UNCHANGED detailVars
TimeSpec == Init /\ [][TimeNext]_vars

\* the buttons and the seek slider under every props and duration
ControlNext ==
  \/ /\ \E track \in Tracks, playing, next, previous \in BOOLEAN :
          PropsChange(track, playing, next, previous)
     /\ UNCHANGED detailVars
  \/ /\ \E d \in Durations : DurationUpdate(d)
     /\ UNCHANGED detailVars
  \/ /\ \E layout \in Layouts, button \in Buttons : Click(layout, button)
     /\ UNCHANGED detailVars
  \/ /\ \E layout \in Layouts, p \in 0..MaxSeek : SlideSeek(layout, p)
     /\ UNCHANGED detailVars
ControlSpec == Init /\ [][ControlNext]_vars

\* the volume glyph and slider under every volume
VolumeNext ==
  \/ /\ \E v \in 0..MaxVolume : VolumeUpdate(v)
     /\ UNCHANGED detailVars
  \/ /\ \E layout \in Layouts, v \in 0..MaxVolume : SlideVolume(layout, v)
     /\ UNCHANGED detailVars
VolumeSpec == Init /\ [][VolumeNext]_vars

(***************************************************************************)
(* Properties                                                              *)
(***************************************************************************)
\* the segments in which a handleRefreshLink invocation ends
RefreshEndEvents ==
  {"refreshPostError", "refreshNoUrl", "refreshFetchThrow", "refreshFetchNull",
   "refreshQualityMissing", "refreshNoPlayer", "refreshPlayDone"}

\* the segments in which a handleRefreshLink invocation ends after a failure
RefreshFailureEvents ==
  {"refreshPostError", "refreshFetchThrow", "refreshQualityMissing"}

\* the refresh whose player.play() is awaited
PlayingRefreshes(rs) == {i \in DOMAIN rs : rs[i].stage = "play"}

\* the pick continuation that resumes in this step
ResumedPicks ==
  {r \in BagToSet(fetches) :
     r.kind = "pick" /\ CopiesIn(r, fetches') < CopiesIn(r, fetches)}

\* the requests in flight: getMovieById calls and refresh-endpoint calls
RequestsInFlight == <<fetches, refreshes>>

\* C1: once handleRefreshLink has set refreshing, and provided every request
\* it awaits answers, refreshing becomes false again, whatever the outcome.
C1_RefreshTerminates == isRefreshing ~> ~isRefreshing

C1_Witness ==
  /\ lastEvent \in RefreshEndEvents \ {"refreshPlayDone"}
  /\ ~isRefreshing
  /\ refreshes = <<>>

\* C2: when a refresh ends after a failure (endpoint error, re-fetch error,
\* selected quality absent from the fresh record), refreshing is cleared and
\* playbackError is true.
C2_FailedRefreshSetsError ==
  lastEvent \in RefreshFailureEvents => (~isRefreshing /\ playbackError)

\* C3: when the re-fetch of a refresh answers with a record that holds the
\* selected quality and the player is live, content is that record, the
\* source handed to the player is the URL of the quality in that record and
\* playbackError is false; the refresh then completes with these unchanged
\* and refreshing cleared.
C3_SuccessfulRefresh ==
  [][/\ lastEvent' = "refreshPlaying" =>
          \E i \in PlayingRefreshes(refreshes') :
             /\ movie' = refreshes'[i].fresh
             /\ movie' \in Catalogue(refreshes'[i].id)
             /\ FindQuality(movie', refreshes'[i].sel) # 0
             /\ playerSrc' =
                  movie'.video_qualities[
                    FindQuality(movie', refreshes'[i].sel)].url
             /\ ~playbackError'
     /\ (lastEvent = "refreshPlaying" /\ lastEvent' = "refreshPlayDone") =>
          /\ movie' = movie
          /\ playerSrc' = playerSrc
          /\ ~playbackError'
          /\ ~isRefreshing'
    ]_vars

C3_Witness ==
  /\ lastEvent = "refreshPlayDone"
  /\ ~isRefreshing
  /\ ~playbackError
  /\ playerLive
  /\ playerSrc = Url(selectedQuality, "b")
  /\ playerSrc = getSelectedQualityUrl

\* C4: a pick of a label the record holds selects the label, clears
\* playbackError and issues exactly one fetch, with the force flag, and no
\* other request; when the re-fetch has answered the player view is open and
\* the selection is what it was before the answer: the picked label, unless
\* another pick came in between.
C4_PickPresent ==
  [][/\ lastEvent' = "pick" =>
          /\ FindQuality(movie, selectedQuality') # 0
          /\ ~playbackError'
          /\ refreshes' = refreshes
          /\ \E r \in BagToSet(fetches') :
               /\ fetches' = fetches (+) OneOf(r)
               /\ r.kind = "pick"
               /\ r.force
               /\ r.id = movieId
               /\ r.quality = selectedQuality'
     /\ lastEvent' \in {"pickOpened", "pickLoaded"} =>
          /\ showPlayer'
          /\ selectedQuality' = selectedQuality
          /\ ResumedPicks # {}
          /\ \A r \in ResumedPicks :
               r.quality = selectedQuality => selectedQuality' = r.quality
    ]_vars

C4_Witness ==
  /\ lastEvent = "pickOpened"
  /\ showPlayer
  /\ Ready(isLoading, error, movie)
  /\ selectedQuality = "1080p"
  /\ FirstQuality(movie) = "720p"

\* C5: a pick of a label the record does not hold changes no state field,
\* issues no request and hands nothing to the player.
C5_PickAbsent ==
  [][lastEvent' = "pickAbsent" =>
       UNCHANGED <<state, movieId, playerLive, playerSrc, RequestsInFlight>>
    ]_vars

C5_Witness ==
  /\ lastEvent = "pickAbsent"
  /\ movie.video_qualities # <<>>

\* C6: a successful load sets selectedQuality to the first label of the
\* record when none is selected, and leaves a selection that is already
\* non-null as it is.
C6_DefaultOnlyWhenUnset ==
  [][lastEvent' = "loadOk" =>
       selectedQuality' = IF selectedQuality = NoQuality
                          THEN FirstQuality(movie')
                          ELSE selectedQuality
    ]_vars

\* C7 as stated: whenever the player reports a playback failure,
\* playbackError is true afterwards.
C7_ErrorCallbackSetsError ==
  lastEvent \in {"videoError", "videoErrorIgnored"} => playbackError

\* C7 as amended: a playback failure reported while a record and a selection
\* are present and no refresh is in flight sets playbackError; one reported
\* while refreshing changes nothing; neither issues a request nor changes any
\* other field.
C7_ErrorCallbackNoRetry ==
  [][lastEvent' \in {"videoError", "videoErrorIgnored"} =>
       /\ (movie # NoMovie /\ selectedQuality # NoQuality /\ ~isRefreshing)
            => playbackError'
       /\ isRefreshing => playbackError' = playbackError
       /\ UNCHANGED <<RequestsInFlight, movieId, movie, isLoading, error,
                      selectedQuality, showPlayer, isRefreshing, playerLive,
                      playerSrc>>
    ]_vars

C7_Witness ==
  /\ lastEvent = "videoError"
  /\ playbackError
  /\ ~isRefreshing
  /\ refreshes = <<>>

\* C8: a refresh starts only while playbackError is true and refreshing is
\* false; the refresh action invoked while refreshing changes no state and
\* sends no request; at most one refresh is in flight.
C8_SingleFlight ==
  [][/\ Len(refreshes') <= 1
     /\ lastEvent' = "refreshStart" =>
          /\ playbackError
          /\ ~isRefreshing
          /\ refreshes = <<>>
     /\ (isRefreshing /\ lastEvent' \in {"refreshStart", "refreshIgnored"}) =>
          /\ lastEvent' = "refreshIgnored"
          /\ UNCHANGED <<state, movieId, playerLive, playerSrc,
                         RequestsInFlight>>
    ]_vars

C8_Witness ==
  /\ lastEvent = "refreshIgnored"
  /\ isRefreshing
  /\ Len(refreshes) = 1

\* C9: when the record of another identifier is shown, playerOpen,
\* refreshing and playbackError are false and the selection is the default
\* of the new record, as after a reset to none.
C9_ResetOnIdChange ==
  [][(lastEvent' = "loadOk" /\ movie # NoMovie /\ movie'.id # movie.id) =>
       /\ ~showPlayer'
       /\ ~isRefreshing'
       /\ ~playbackError'
       /\ selectedQuality' = FirstQuality(movie')
    ]_vars

\* C10: a change of identifier in the Error state puts the surface back in
\* Loading, and a successful fetch for the current identifier leads to Ready.
C10_ErrorNotTerminal ==
  [][/\ (lastEvent' = "changeId" /\ error # NoError) =>
          (isLoading' /\ error' = NoError)
     /\ (lastEvent' = "loadOk" /\ movie'.id = movieId) =>
          Ready(isLoading', error', movie')
    ]_vars
\* the segments in which an answer of getMovieById is applied to content
ContentEvents ==
  {"loadOk", "pickOpened", "pickLoaded", "refreshPlaying", "refreshFetchNull",
   "refreshQualityMissing", "refreshNoPlayer"}

\* C11: content is only ever overwritten with a record of the current
\* identifier: the answer to a fetch issued for an earlier identifier never
\* replaces it.
C11_OnlyCurrentIdWrites ==
  [][(/\ lastEvent' \in ContentEvents
      /\ movieId \in Ids
      /\ movie' # movie
      /\ movie' # NoMovie) =>
       movie'.id = movieId
    ]_vars

\* C12: closing the player view sets playerOpen to false, changes no other
\* state field and removes nothing that is in flight; the answers that
\* arrive afterwards are applied as they are with the view open, and a
\* refresh that was in flight at the close still ends with refreshing false.
C12_CloseCancelsNothing ==
  /\ [][/\ lastEvent' = "closePlayer" =>
             /\ ~showPlayer'
             /\ UNCHANGED <<movieId, movie, isLoading, error, selectedQuality,
                            isRefreshing, playbackError, RequestsInFlight>>
        /\ lastEvent' \in {"loadOk", "pickOpened", "pickLoaded"} =>
             /\ BagCardinality(fetches') <= BagCardinality(fetches)
             /\ ~isLoading'
             /\ UNCHANGED <<playbackError, isRefreshing>>
        /\ lastEvent' \in {"refreshPostError", "refreshFetchThrow"} =>
             (playbackError' /\ ~isRefreshing' /\ movie' = movie)
        /\ lastEvent' \in {"refreshFetchNull", "refreshQualityMissing",
                           "refreshNoPlayer"} =>
             /\ ~playbackError'
             /\ ~isRefreshing'
             /\ \E i \in DOMAIN refreshes :
                  movie' \in Catalogue(refreshes[i].id) \cup {NoMovie}
       ]_vars
  /\ (lastEvent = "closePlayer" /\ isRefreshing) ~> ~isRefreshing

C12_Witness ==
  /\ lastEvent = "refreshNoPlayer"
  /\ ~showPlayer
  /\ ~isRefreshing
  /\ movie # NoMovie
(***************************************************************************)
(* The playback control surface: properties                                *)
(***************************************************************************)
\* decimal notation, written out digit by digit
Digit(d) == <<"0", "1", "2", "3", "4", "5", "6", "7", "8", "9">>[d + 1]
RECURSIVE Decimal(_)
Decimal(n) == IF n < 10 THEN Digit(n) ELSE Decimal(n \div 10) \o Digit(n % 10)
\* M:SS of a whole number of seconds
MinutesSeconds(s) ==
  Decimal(s \div 60) \o ":" \o Digit((s % 60) \div 10) \o Digit((s % 60) % 10)

\* C13: the elapsed-time label shows every non-negative whole number of
\* seconds s as M:SS, M = s div 60 without leading zero and SS = s mod 60 on
\* two digits, and shows NaN, positive infinity and undefined as "0:00"
C13_FormatTime ==
  rendered.elapsed = IF currentTime.kind = "number"
                     THEN MinutesSeconds(currentTime.n)
                     ELSE "0:00"

\* the part of C13 on whole numbers, NaN and undefined
C13_FormatTimeFinite ==
  currentTime # Infinity =>
    rendered.elapsed = IF currentTime.kind = "number"
                       THEN MinutesSeconds(currentTime.n)
                       ELSE "0:00"
\* the effective duration as C14 words it
NominalDuration ==
  IF /\ currentTrack.present
     /\ currentTrack.duration.kind \in {"number", "Infinity"}
     /\ currentTrack.duration # Num(0)
  THEN currentTrack.duration
  ELSE Num(0)
StatedDuration ==
  IF duration.kind = "Infinity" \/ (duration.kind = "number" /\ duration.n > 0)
  THEN duration
  ELSE NominalDuration

\* C14: the effective duration is the playback-state duration when that is
\* > 0, otherwise the track's nominal duration when a track with a non-zero
\* duration is present, otherwise 0; the seek slider is disabled iff the
\* effective duration is 0, and when enabled a position p of the slider is
\* forwarded as exactly one intent handleSeek(p)
C14_SeekControl ==
  /\ rendered.seekMax = StatedDuration
  /\ rendered.seekDisabled <=> (StatedDuration = Num(0))
  /\ gesture.kind = "seek" =>
       intents = IF StatedDuration = Num(0)
                 THEN <<>>
                 ELSE <<Intent("handleSeek", Num(gesture.pos))>>
C14_Witness ==
  /\ gesture.kind = "seek"
  /\ duration = NaN
  /\ currentTrack.present
  /\ gesture.pos = currentTrack.duration.n
  /\ gesture.pos > 0
  /\ intents = <<Intent("handleSeek", Num(gesture.pos))>>

\* a playable source is present
PlayableSource == currentTrack.present /\ currentTrack.audioUrl # ""

\* C15: in both layouts play/pause, skip-forward and skip-backward are
\* disabled, and forward no intent, iff no track with a non-empty audio URL is
\* present; previous and next are disabled, and forward no intent, iff their
\* optional callback was not supplied
C15_TransportControls ==
  /\ \A l \in Layouts :
       /\ \A b \in {"playPause", "skipForward", "skipBackward"} :
            rendered.disabled[l][b] <=> ~PlayableSource
       /\ rendered.disabled[l]["previous"] <=> ~onPrevious
       /\ rendered.disabled[l]["next"] <=> ~onNext
  /\ gesture.kind = "click" =>
       LET acts == CASE gesture.control = "previous" -> onPrevious
                     [] gesture.control = "next" -> onNext
                     [] OTHER -> PlayableSource
       IN  IF acts
           THEN /\ Len(intents) = 1
                /\ intents[1].name =
                     CASE gesture.control = "previous" -> "onPrevious"
                       [] gesture.control = "next" -> "onNext"
                       [] gesture.control = "playPause" -> "onPlayPause"
                       [] OTHER -> gesture.control
           ELSE intents = <<>>
C15_Witness ==
  /\ gesture.kind = "click"
  /\ gesture.layout = "desktop"
  /\ gesture.control = "playPause"
  /\ currentTrack.present
  /\ currentTrack.audioUrl = ""
  /\ onNext
  /\ intents = <<>>

\* C16: the volume glyph is the muted one iff the volume is 0, the low one iff
\* 0 < volume < 50, the full one iff volume >= 50, and a position of the
\* volume slider is forwarded unchanged as a set-volume intent
C16_Volume ==
  /\ volume \in 0..MaxVolume
  /\ rendered.glyph = "VolumeX" <=> volume = 0
  /\ rendered.glyph = "Volume1" <=> (0 < volume /\ volume < 50)
  /\ rendered.glyph = "Volume2" <=> volume >= 50
  /\ gesture.kind = "volume" =>
       intents = <<Intent("setVolume", Num(gesture.pos))>>
C16_Witness ==
  /\ volume = 50
  /\ rendered.glyph = "Volume2"
  /\ gesture.kind = "volume"
  /\ gesture.pos = MaxVolume
  /\ intents = <<Intent("setVolume", Num(MaxVolume))>>
(***************************************************************************)
(* The detail surface: lookup, pick and refresh                            *)
(***************************************************************************)
\* the variants of the current record whose label is selectedQuality
SelectedVariants ==
  {i \in DOMAIN movie.video_qualities :
     movie.video_qualities[i].quality = selectedQuality}

\* C17: in every state the selected-quality URL lookup returns the URL of the
\* variant whose label equals selectedQuality when the record has one, and
\* the empty string when the record or the selection is missing or the label
\* is absent; the render that calls it for the player changes no state
C17_UrlLookup ==
  /\ [](IF movie # NoMovie /\ selectedQuality # NoQuality /\ SelectedVariants # {}
        THEN getSelectedQualityUrl \in
               {movie.video_qualities[i].url : i \in SelectedVariants}
        ELSE getSelectedQualityUrl = NoUrl)
  /\ [][lastEvent' = "playerMounted" =>
          /\ UNCHANGED <<state, movieId, RequestsInFlight>>
          /\ playerSrc' = getSelectedQualityUrl]_vars
C17_Witness ==
  /\ lastEvent = "playerMounted"
  /\ movie # NoMovie
  /\ selectedQuality \in Labels
  /\ SelectedVariants = {}
  /\ playerSrc = NoUrl
\* C18: when a quality pick resumes with a live player, the source it loads
\* into the player is the picked quality's URL in the record its force
\* re-fetch returned, not the URL of the record current before the re-fetch
C18_PickLoadsFreshUrl ==
  [][(lastEvent' = "pickLoaded" /\ playerLive') =>
       \E r \in ResumedPicks :
         FindQuality(movie', r.quality) # 0 =>
           playerSrc' = movie'.video_qualities[FindQuality(movie', r.quality)].url
    ]_vars
\* C19: refreshing and playbackError are never true together, also when the
\* playback failure of an earlier quality pick is reported while a manual
\* refresh is in flight
C19_RefreshingExcludesError == ~(isRefreshing /\ playbackError)
\* the segments of handleRefreshLink
RefreshSegments ==
  {"refreshStart", "refreshPostError", "refreshNoUrl", "refreshRefetch",
   "refreshFetchThrow", "refreshFetchNull", "refreshQualityMissing",
   "refreshNoPlayer", "refreshPlaying", "refreshPlayDone"}

\* C20: no step of a manual refresh replaces a loaded record by none,
\* whatever the refresh endpoint and the force re-fetch answer, so a refresh
\* does not turn the Ready view into the not-found view
C20_RefreshKeepsRecord ==
  [][(lastEvent' \in RefreshSegments /\ movie # NoMovie) => movie' # NoMovie]_vars
\* C21: the player view is open only in Ready: showPlayer implies that error
\* is unset and the record is present, also after a quality pick whose force
\* re-fetch throws or returns no record
C21_PlayerOpenOnlyInReady == showPlayer => (error = NoError /\ movie # NoMovie)
\* the labels of the current record
MovieLabels ==
  {movie.video_qualities[i].quality : i \in DOMAIN movie.video_qualities}

\* C22: whenever the surface is Ready, selectedQuality is a label of the
\* record's quality list, after any loads, identifier changes, picks and
\* refreshes
C22_SelectedQualityInRecord ==
  Ready(isLoading, error, movie) => selectedQuality \in MovieLabels
=============================================================================
